---- MODULE Spec2Model ----
(***************************************************************************)
(* Model of script.js of the drone delivery demo: the click handler of the *)
(* map, drawPath, animateDrone with its timer-driven move() closure,       *)
(* analyzeGraph, computeRoute (scoring, sorting, explanation, top-3 panel) *)
(* and resetMap.                                                           *)
(*                                                                         *)
(* Coordinates are in tenths of a degree, so that spread and density are   *)
(* exact rationals.  The distance text (haversine, floating-point trig) is *)
(* the one field of the page that is not modelled.                         *)
(***************************************************************************)
EXTENDS Integers, Sequences, FiniteSets, TLC

\* ------------------------------------------------------------------ bounds
\* most points a session of Spec collects by clicking
MaxPoints == 3
\* longest PointSet SpecScoring starts from
MaxScoredPoints == 8
\* most animations (successful computeRoute calls) in one behaviour
MaxAnims == 2
\* most resetMap calls in one behaviour
MaxResets == 1

\* ------------------------------------------------------------------ inputs
\* e.latlng values the click handler receives, in tenths of a degree:
\* (0,0) and (0.7,0); bounding boxes of spread 0 and 0.7
Coords ==
    { [lat |-> 0, lng |-> 0], [lat |-> 7, lng |-> 0] }

\* the points of the PointSets SpecScoring starts from: with (0,0.3) the
\* bounding boxes have spread 0, 0.3, 0.7 and 1.0
ScoredCoords ==
    Coords \cup { [lat |-> 0, lng |-> 3] }

RECURSIVE SeqsUpTo(_, _)
SeqsUpTo(S, n) ==
    IF n = 0 THEN { <<>> }
    ELSE LET shorter == SeqsUpTo(S, n - 1)
         IN  shorter \cup { Append(s, x) : s \in { t \in shorter : Len(t) = n - 1 }, x \in S }

\* ------------------------------------------------------------------ state
VARIABLES
    points,      \* let points: the array currently bound to the name
    markers,     \* let markers: one map marker per click
    polylines,   \* let polylines: the drawn segments
    droneMarker, \* let droneMarker: null (owner 0) or the marker object
    lastScored,  \* let lastScored: the most recent ranking
    algorithms,  \* const algorithms: the catalog array object
    timers,      \* pending setTimeout(move, 900) callbacks, in firing order
    ui,          \* the text of the page elements computeRoute writes
    nextAnim,    \* number of animateDrone calls so far (closure identities)
    resets,      \* number of resetMap calls so far
    notice       \* the alert() text the last handler raised, "" if none

vars == <<points, markers, polylines, droneMarker, lastScored, algorithms,
          timers, ui, nextAnim, resets, notice>>

\* ------------------------------------------------------------------ catalog
AlgorithmCatalog ==
    << [name |-> "Dijkstra",                time |-> "O(E log V)",   base |-> 90],
       [name |-> "A*",                      time |-> "O(E log V)",   base |-> 88],
       [name |-> "BFS",                     time |-> "O(V+E)",       base |-> 82],
       [name |-> "DFS",                     time |-> "O(V+E)",       base |-> 65],
       [name |-> "Bellman-Ford",            time |-> "O(VE)",        base |-> 70],
       [name |-> "Floyd-Warshall",          time |-> "O(V^3)",       base |-> 60],
       [name |-> "Prim",                    time |-> "O(E log V)",   base |-> 78],
       [name |-> "Kruskal",                 time |-> "O(E log E)",   base |-> 76],
       [name |-> "Bidirectional Dijkstra",  time |-> "O(E log V)",   base |-> 85],
       [name |-> "Johnson",                 time |-> "O(V^2 log V)", base |-> 72],
       [name |-> "Ant Colony Optimization", time |-> "Iterative",    base |-> 68],
       [name |-> "Naive Greedy",            time |-> "O(V^2)",       base |-> 55] >>

Descriptor(a) == [name |-> a.name, time |-> a.time, base |-> a.base]

\* ------------------------------------------------------------------ helpers
Min(a, b) == IF a < b THEN a ELSE b
Max(a, b) == IF a > b THEN a ELSE b

SetMin(S) == CHOOSE x \in S : \A y \in S : x <= y
SetMax(S) == CHOOSE x \in S : \A y \in S : x >= y

NullMarker == [owner |-> 0, pos |-> [lat |-> 0, lng |-> 0], onMap |-> FALSE]

\* ------------------------------------------------------------------ drawPath
DrawPath(pts) ==
    [i \in 1..(Len(pts) - 1) |-> <<pts[i], pts[i + 1]>>]

\* ------------------------------------------------------------------ analyzeGraph
\* spread in tenths of a degree; density = n / (spread + 0.0001) kept as the
\* exact fraction num/den
AnalyzeGraph(pts) ==
    LET n      == Len(pts)
        lats   == { pts[i].lat : i \in 1..n }
        lngs   == { pts[i].lng : i \in 1..n }
        spread == (SetMax(lats) - SetMin(lats)) + (SetMax(lngs) - SetMin(lngs))
    IN  [n |-> n, spread |-> spread,
         density |-> [num |-> 10000 * n, den |-> 1000 * spread + 1]]

\* analysis.spread > 0.3
SpreadWide(analysis) == analysis.spread > 3
\* analysis.density < 10
DensityLow(analysis) == analysis.density.num < 10 * analysis.density.den

\* ------------------------------------------------------------------ scoring
ClampLowOnly(score) == Max(0, score)

\* Math.max(0, Math.min(100, score))
Clamp(score) == Max(0, Min(100, score))

AdjustedFloydInclusive(a, analysis) ==
    a.base
    + (IF analysis.n <= 3 /\ (a.name = "BFS" \/ a.name = "DFS") THEN 20 ELSE 0)
    + (IF analysis.n >= 4 /\ analysis.n <= 7 /\ a.name = "Dijkstra" THEN 25 ELSE 0)
    + (IF SpreadWide(analysis) /\ DensityLow(analysis) /\ a.name = "A*" THEN 25 ELSE 0)
    + (IF analysis.n > 7 /\ a.name = "Bidirectional Dijkstra" THEN 20 ELSE 0)
    - (IF analysis.n <= 5 /\ a.name = "Floyd-Warshall" THEN 30 ELSE 0)

\* the five additive rules of the map callback, before the clamp
Adjusted(a, analysis) ==
    a.base
    + (IF analysis.n <= 3 /\ (a.name = "BFS" \/ a.name = "DFS") THEN 20 ELSE 0)
    + (IF analysis.n >= 4 /\ analysis.n <= 7 /\ a.name = "Dijkstra" THEN 25 ELSE 0)
    + (IF SpreadWide(analysis) /\ DensityLow(analysis) /\ a.name = "A*" THEN 25 ELSE 0)
    + (IF analysis.n > 7 /\ a.name = "Bidirectional Dijkstra" THEN 20 ELSE 0)
    - (IF analysis.n < 5 /\ a.name = "Floyd-Warshall" THEN 30 ELSE 0)

\* { ...a, score }
Scored(a, analysis) ==
    [name |-> a.name, time |-> a.time, base |-> a.base,
     score |-> Clamp(Adjusted(a, analysis))]

ScoreCatalogSkipLast(cat, analysis) ==
    [i \in 1..(Len(cat) - 1) |-> Scored(cat[i], analysis)]

\* algorithms.map(a => ...)
ScoreCatalog(cat, analysis) ==
    [i \in 1..Len(cat) |-> Scored(cat[i], analysis)]

CompareAscending(a, b) == a.score - b.score

\* the comparator (a,b) => b.score - a.score
Compare(a, b) == b.score - a.score

InsertUnstable(sorted, x) ==
    LET k == Cardinality({ j \in 1..Len(sorted) : Compare(sorted[j], x) < 0 })
    IN  SubSeq(sorted, 1, k) \o <<x>> \o SubSeq(sorted, k + 1, Len(sorted))

\* Array.prototype.sort is stable: x goes behind every element the
\* comparator does not put after it
Insert(sorted, x) ==
    LET k == Cardinality({ j \in 1..Len(sorted) : Compare(sorted[j], x) <= 0 })
    IN  SubSeq(sorted, 1, k) \o <<x>> \o SubSeq(sorted, k + 1, Len(sorted))

RECURSIVE SortFrom(_, _)
SortFrom(sorted, rest) ==
    IF rest = <<>> THEN sorted
    ELSE SortFrom(Insert(sorted, Head(rest)), Tail(rest))

\* lastScored.sort((a,b) => b.score - a.score)
Sort(arr) == SortFrom(<<>>, arr)

CatalogSortedInPlace(cat, ranking) ==
    [i \in 1..Len(ranking) |-> Descriptor(ranking[i])]

\* map() builds a new array of new objects and sort() works on that one:
\* the array bound to algorithms is what it was
CatalogAfterScoring(cat, ranking) == cat

\* ------------------------------------------------------------------ explanation
Explanation(name) ==
    IF name = "Dijkstra" THEN
        "Dijkstra was selected because the delivery network is moderately sized and weighted. It guarantees the optimal shortest path while maintaining acceptable computational efficiency."
    ELSE IF name = "A*" THEN
        "A* was selected because the delivery points are spatially well-distributed, allowing heuristic guidance to reduce unnecessary exploration and speed up pathfinding."
    ELSE IF name = "BFS" THEN
        "BFS was selected due to the very small size of the delivery network, where a simple level-based traversal is sufficient and computationally efficient."
    ELSE IF name = "Bidirectional Dijkstra" THEN
        "Bidirectional Dijkstra was selected because the network is large, and searching from both the source and destination significantly reduces the search space."
    ELSE IF name = "Bellman-Ford" THEN
        "Bellman-Ford was selected due to its robustness and ability to handle complex edge conditions, despite higher computational cost."
    ELSE
        "This algorithm was selected based on its balance between performance, scalability, and suitability for the current network characteristics."

\* renderTopAlgorithms: the cards of lastScored.slice(0,3)
RenderTopAlgorithms(ranking) ==
    [i \in 1..Min(3, Len(ranking)) |->
        [rank |-> i, name |-> ranking[i].name, time |-> ranking[i].time,
         score |-> ranking[i].score, badge |-> (i = 1)]]

\* the elements computeRoute fills in (all but the distance text)
UpdateUI(ranking, pts) ==
    LET best == ranking[1]
    IN  [algoName      |-> best.name,
         bestAlgo      |-> best.name,
         points        |-> Len(pts),
         iterations    |-> Len(pts),
         complexity    |-> best.time,
         bestReason    |-> "Algorithm selected based on structural analysis of the delivery network.",
         aiExplanation |-> Explanation(best.name),
         topAlgorithms |-> RenderTopAlgorithms(ranking)]

BlankUI ==
    [algoName |-> "", bestAlgo |-> "", points |-> 0, iterations |-> 0,
     complexity |-> "", bestReason |-> "", aiExplanation |-> "",
     topAlgorithms |-> <<>>]

\* ------------------------------------------------------------------ animation
\* a pending callback is the closure of one animateDrone call: anim names the
\* call, i is its counter, live/path its path argument; start and visited are
\* history (the points when it was called, the positions it has set so far).
\* the array a move() closure holds as path: the one bound to points while the
\* closure is live, the array it kept once resetMap has rebound points
PathOf(t) == IF t.live THEN points ELSE t.path

\* ------------------------------------------------------------------ Init
Init ==
    /\ points = <<>>
    /\ markers = <<>>
    /\ polylines = <<>>
    /\ droneMarker = NullMarker
    /\ lastScored = <<>>
    /\ algorithms = AlgorithmCatalog
    /\ timers = <<>>
    /\ ui = BlankUI
    /\ nextAnim = 0
    /\ resets = 0
    /\ notice = ""

\* a session in which the user has clicked some points and nothing else
InitScoring ==
    /\ points \in SeqsUpTo(ScoredCoords, MaxScoredPoints)
    /\ markers = points
    /\ polylines = <<>>
    /\ droneMarker = NullMarker
    /\ lastScored = <<>>
    /\ algorithms = AlgorithmCatalog
    /\ timers = <<>>
    /\ ui = BlankUI
    /\ nextAnim = 0
    /\ resets = 0
    /\ notice = ""

\* ------------------------------------------------------------------ actions
\* map.on('click', ...)
Click ==
    \E c \in Coords :
        /\ Len(points) < MaxPoints
        /\ points' = Append(points, c)
        /\ markers' = Append(markers, c)
        /\ notice' = ""
        /\ UNCHANGED <<polylines, droneMarker, lastScored, algorithms, timers,
                       ui, nextAnim, resets>>

InsufficientPointsOffByOne(pts) == Len(pts) < 1

\* points.length < 2
InsufficientPoints(pts) == Len(pts) < 2

\* computeRoute, with drawPath, animateDrone and its first move() inlined
ComputeRoute ==
    IF InsufficientPoints(points)
    THEN /\ notice' = "Add at least 2 points"
         /\ UNCHANGED <<points, markers, polylines, droneMarker, lastScored,
                        algorithms, timers, ui, nextAnim, resets>>
    ELSE /\ nextAnim < MaxAnims
         /\ polylines' = DrawPath(points)
         /\ nextAnim' = nextAnim + 1
         /\ droneMarker' = [owner |-> nextAnim', pos |-> points[1], onMap |-> TRUE]
         /\ timers' = Append(timers, [anim |-> nextAnim', live |-> TRUE,
                                      path |-> <<>>, i |-> 1,
                                      start |-> points, visited |-> <<points[1]>>])
         /\ lastScored' = Sort(ScoreCatalog(algorithms, AnalyzeGraph(points)))
         /\ algorithms' = CatalogAfterScoring(algorithms, lastScored')
         /\ ui' = UpdateUI(lastScored', points)
         /\ notice' = ""
         /\ UNCHANGED <<points, markers, resets>>

\* the timer callback move(): all delays are 900 ms, so the callbacks fire in
\* the order they were scheduled
Move ==
    /\ timers # <<>>
    /\ LET t    == Head(timers)
           path == PathOf(t)
       IN  IF t.i >= Len(path)
           THEN /\ timers' = Tail(timers)
                /\ UNCHANGED droneMarker
           ELSE /\ droneMarker' = [droneMarker EXCEPT !.pos = path[t.i + 1]]
                /\ timers' = Append(Tail(timers),
                                    [t EXCEPT !.i = t.i + 1,
                                              !.visited = Append(@, path[t.i + 1])])
    /\ notice' = ""
    /\ UNCHANGED <<points, markers, polylines, lastScored, algorithms, ui, nextAnim, resets>>

\* resetMap: points is rebound to a new array, the closures keep the old one
ResetMap ==
    /\ resets < MaxResets
    /\ resets' = resets + 1
    /\ points' = <<>>
    /\ markers' = <<>>
    /\ polylines' = <<>>
    /\ droneMarker' = [droneMarker EXCEPT !.onMap = FALSE]
    /\ timers' = [k \in 1..Len(timers) |->
                    IF timers[k].live
                    THEN [timers[k] EXCEPT !.live = FALSE, !.path = points]
                    ELSE timers[k]]
    /\ notice' = ""
    /\ UNCHANGED <<lastScored, algorithms, ui, nextAnim>>

Next == Click \/ ComputeRoute \/ Move \/ ResetMap

Spec == Init /\ [][Next]_vars

\* the handlers of the page while the timer callbacks are still pending
NextHandlers == Click \/ ComputeRoute \/ ResetMap

SpecHandlers == Init /\ [][NextHandlers]_vars

\* scoring of the PointSets of InitScoring, and of those a click extends
NextScoring == Click \/ ComputeRoute

SpecScoring == InitScoring /\ [][NextScoring]_vars

\* ------------------------------------------------------------------ properties
NamesOf(seq) == { seq[k].name : k \in 1..Len(seq) }

\* the score the ranking gives the entry called name
ScoreOf(ranking, name) ==
    (CHOOSE e \in { ranking[k] : k \in 1..Len(ranking) } : e.name = name).score

\* the position of name in the catalog
CatalogIndex(name) ==
    CHOOSE k \in 1..Len(AlgorithmCatalog) : AlgorithmCatalog[k].name = name

\* the callback at the head of the timer queue is about to set a position
HeadMoves == timers # <<>> /\ Head(timers).i < Len(PathOf(Head(timers)))
\* the callback at the head of the timer queue is about to end its animation
HeadStops == timers # <<>> /\ Head(timers).i >= Len(PathOf(Head(timers)))

\* what a session that has done nothing but click pts and call computeRoute
\* ends with
FreshRanking(pts) == Sort(ScoreCatalog(AlgorithmCatalog, AnalyzeGraph(pts)))

\* C1: a computeRoute call made while points holds fewer than 2 points raises
\* the notice and changes none of points, lastScored, polylines, droneMarker,
\* nor schedules an animation step.
C1_RefusesBelowTwoPoints ==
    [][(ComputeRoute /\ Len(points) < 2)
         => /\ notice' = "Add at least 2 points"
            /\ UNCHANGED <<points, lastScored, polylines, droneMarker, timers>>]_vars

\* C1 witness: the notice is up for a one-point PointSet while an earlier
\* ranking, drone marker and pending animation are still there.
C1_Witness ==
    /\ notice = "Add at least 2 points"
    /\ Len(points) = 1
    /\ lastScored # <<>>
    /\ droneMarker.owner # 0
    /\ timers # <<>>

\* C2 (as claimed): in the state right after resetMap, points is empty and
\* lastScored is empty.
C2_ResetClearsRanking ==
    [][ResetMap => (points' = <<>> /\ lastScored' = <<>>)]_vars

\* C3: every entry of every stored ranking has a score in [0, 100].
C3_ScoresClamped ==
    \A k \in 1..Len(lastScored) :
        lastScored[k].score >= 0 /\ lastScored[k].score <= 100

\* C3 witness: a ranking in which Dijkstra's base plus adjustment was 115 and
\* one in which the stored score is 100.
C3_Witness ==
    /\ lastScored # <<>>
    /\ Len(points) = ui.points
    /\ Adjusted(AlgorithmCatalog[1], AnalyzeGraph(points)) = 115
    /\ ScoreOf(lastScored, "Dijkstra") = 100

\* C4: a stored ranking has exactly 12 entries, each catalog descriptor exactly
\* once, and the catalog array is what it was at load.
C4_RankingIsPermutation ==
    /\ algorithms = AlgorithmCatalog
    /\ lastScored # <<>> =>
         /\ Len(lastScored) = 12
         /\ Len(lastScored) = Len(AlgorithmCatalog)
         /\ \A c \in 1..Len(AlgorithmCatalog) :
               Cardinality({ k \in 1..Len(lastScored) :
                               Descriptor(lastScored[k]) = AlgorithmCatalog[c] }) = 1

\* C4 witness: a second ranking has been stored and its order is not the
\* catalog's.
C4_Witness ==
    /\ nextAnim = 2
    /\ Len(lastScored) = 12
    /\ lastScored[1].name = "BFS"
    /\ lastScored[12].name = "Floyd-Warshall"

\* C5: a stored ranking is in non-increasing score order, and entries of equal
\* score are in catalog order.
C5_StableDescending ==
    \A i \in 1..Len(lastScored) : \A j \in 1..Len(lastScored) :
        i < j =>
            /\ lastScored[i].score >= lastScored[j].score
            /\ lastScored[i].score = lastScored[j].score
                 => CatalogIndex(lastScored[i].name) < CatalogIndex(lastScored[j].name)

\* C5 witness: Dijkstra and A* are both clamped to 100 and Dijkstra is first.
C5_Witness ==
    /\ Len(lastScored) = 12
    /\ lastScored[1].name = "Dijkstra" /\ lastScored[1].score = 100
    /\ lastScored[2].name = "A*" /\ lastScored[2].score = 100

\* the five names a point-count rule applies to
CountRuled ==
    { "BFS", "DFS", "Dijkstra", "Bidirectional Dijkstra", "Floyd-Warshall" }

\* C6: with n the point count of the call, BFS is 100 and DFS 85 iff n <= 3
\* (else 82 and 65), Dijkstra is 100 iff 4 <= n <= 7 (else 90), Bidirectional
\* Dijkstra is 100 iff n > 7 (else 85), Floyd-Warshall is 30 iff n < 5 (else
\* 60), and of the seven entries without a count rule all but A* have their
\* base score.
C6_CountRules ==
    lastScored # <<>> =>
        LET n == ui.points
        IN  /\ n >= 2
            /\ ScoreOf(lastScored, "BFS") = (IF n <= 3 THEN 100 ELSE 82)
            /\ ScoreOf(lastScored, "DFS") = (IF n <= 3 THEN 85 ELSE 65)
            /\ ScoreOf(lastScored, "Dijkstra") = (IF n >= 4 /\ n <= 7 THEN 100 ELSE 90)
            /\ ScoreOf(lastScored, "Bidirectional Dijkstra") = (IF n > 7 THEN 100 ELSE 85)
            /\ ScoreOf(lastScored, "Floyd-Warshall") = (IF n < 5 THEN 30 ELSE 60)
            /\ Cardinality(NamesOf(AlgorithmCatalog) \ CountRuled) = 7
            /\ \A k \in 1..Len(lastScored) :
                  lastScored[k].name \notin (CountRuled \cup {"A*"})
                      => lastScored[k].score = lastScored[k].base

\* C6 witness: a ranking for exactly 5 points, where Floyd-Warshall is not
\* penalised and Dijkstra is boosted.
C6_Witness ==
    /\ lastScored # <<>>
    /\ ui.points = 5
    /\ ScoreOf(lastScored, "Floyd-Warshall") = 60
    /\ ScoreOf(lastScored, "Dijkstra") = 100

\* C7 (as claimed): a timer step that sets a position belongs to the animation
\* started last, and no resetMap has run since that animation started.
C7_OnlyLatestAnimationMoves ==
    [][(HeadMoves /\ Move)
         => (droneMarker.onMap /\ droneMarker.owner = Head(timers).anim)]_vars

\* C8: whatever came before, the ranking and the explanation a computeRoute
\* call that passes the guard (the steps that start an animation) leaves are
\* those a fresh session with the same PointSet ends with.
C8_SameAsFreshSession ==
    [][(nextAnim' = nextAnim + 1)
         => LET fresh == FreshRanking(points)
            IN  /\ lastScored' = fresh
                /\ ui'.aiExplanation = Explanation(fresh[1].name)
                /\ ui'.topAlgorithms = RenderTopAlgorithms(fresh)]_vars

\* C8 witness: a second computeRoute, after a reset and new clicks, on a
\* PointSet other than the first call's, with another winner than a ranking
\* of the first call's PointSet has.
C8_Witness ==
    /\ nextAnim = 2
    /\ resets = 1
    /\ Len(timers) = 2
    /\ timers[2].start = points
    /\ timers[1].start # points
    /\ FreshRanking(timers[1].start)[1].name = "BFS"
    /\ lastScored[1].name = "A*"

\* C9: the first entry of a stored ranking is Dijkstra, A*, BFS or
\* Bidirectional Dijkstra, and the explanation shown is neither the
\* Bellman-Ford text nor the generic one.
C9_TopIsOneOfFour ==
    lastScored # <<>> =>
        /\ lastScored[1].name \in { "Dijkstra", "A*", "BFS", "Bidirectional Dijkstra" }
        /\ ui.aiExplanation # Explanation("Bellman-Ford")
        /\ ui.aiExplanation # Explanation("Prim")

\* C9 witness: with 8 or more points spread wide, A* and Bidirectional
\* Dijkstra are both 100 and A* is first.
C9_Witness ==
    /\ lastScored # <<>>
    /\ ui.points >= 8
    /\ lastScored[1].name = "A*"
    /\ lastScored[2].name = "Bidirectional Dijkstra"
    /\ ui.aiExplanation = Explanation("A*")

\* C10 (as claimed): when an animation stops, the positions it has set are
\* exactly the points of the PointSet at the computeRoute call that started
\* it, in order.
C10_VisitsPointsAtStart ==
    [][(HeadStops /\ Move) => Head(timers).visited = Head(timers).start]_vars

====
